---- MODULE Spec2Model ----
(***************************************************************************)
(* Model of app.py: a FastAPI service keeping patient records in the file  *)
(* patients.json.  Every handler loads the whole file, works on its own    *)
(* copy and (for the mutating handlers) writes the whole file back.        *)
(*                                                                         *)
(* Representation.                                                         *)
(*  - A Python dict (the file content, a record value) keeps insertion     *)
(*    order, and json.load/json.dump preserve it.  The file content is a   *)
(*    sequence of entries [key, val]; a record value is a TLA+ record.     *)
(*  - A value that can be None (a request body before validation, the      *)
(*    dump of a PatientUpdate) is an option: None == <<>>, a value v is    *)
(*    <<v>>.                                                               *)
(*  - height is counted in hundredths of a metre and weight in hundredths  *)
(*    of a kilogram, so that bmi, which round(..., 2) keeps to two         *)
(*    decimals, is an integer number of hundredths.                        *)
(***************************************************************************)
EXTENDS Integers, Sequences, FiniteSets, TLC

VARIABLES store, request, response, inflight, created

vars == <<store, request, response, inflight, created>>

----------------------------------------------------------------------------
(* Optional values and dicts *)

None == <<>>

Some(v) == <<v>>

\* a dict of plain values seen as a dict of optional values
Wrap(d) == [k \in DOMAIN d |-> Some(d[k])]

\* `key in data`
Has(data, key) == \E i \in 1..Len(data) : data[i].key = key

Keys(data) == {data[i].key : i \in 1..Len(data)}

\* data[key]
Get(data, key) == data[CHOOSE i \in 1..Len(data) : data[i].key = key].val

\* Put writing val under every key once the key exists
Put_EveryKey(data, key, val) ==
    IF Has(data, key)
    THEN [i \in 1..Len(data) |-> [key |-> data[i].key, val |-> val]]
    ELSE Append(data, [key |-> key, val |-> val])

\* data[key] = val : an existing key keeps its position, a new key is appended
Put(data, key, val) ==
    IF Has(data, key)
    THEN [i \in 1..Len(data) |->
             IF data[i].key = key THEN [key |-> key, val |-> val] ELSE data[i]]
    ELSE Append(data, [key |-> key, val |-> val])

\* del data[key]
Del(data, key) == SelectSeq(data, LAMBDA e : e.key # key)

\* data.values()
Values(data) == [i \in 1..Len(data) |-> data[i].val]

----------------------------------------------------------------------------
(* The pydantic models *)

Genders == {"male", "female", "other"}

PatientFields == {"id", "name", "city", "age", "gender", "height", "weight"}

UpdateFields == {"name", "city", "age", "gender", "height", "weight"}

\* PatientFieldOK with age allowed up to 120 (lt taken as le)
PatientFieldOK_AgeLe(k, v) ==
    CASE k = "age"    -> v > 0 /\ v <= 120
      [] k = "gender" -> v \in Genders
      [] k = "height" -> v > 0
      [] k = "weight" -> v > 0
      [] OTHER        -> TRUE

\* the Field(...) constraints of class Patient
PatientFieldOK(k, v) ==
    CASE k = "age"    -> v > 0 /\ v < 120
      [] k = "gender" -> v \in Genders
      [] k = "height" -> v > 0
      [] k = "weight" -> v > 0
      [] OTHER        -> TRUE

\* the Field(...) constraints of class PatientUpdate: age has no upper limit
PatientUpdateFieldOK(k, v) ==
    CASE k = "age"    -> v > 0
      [] k = "gender" -> v \in Genders
      [] k = "height" -> v > 0
      [] k = "weight" -> v > 0
      [] OTHER        -> TRUE

\* Patient(**d) does not raise ValidationError: every field is required, none
\* is Optional, and each meets its constraint.  Keys of d that are no field
\* of Patient are ignored (pydantic's default extra="ignore").
PatientValid(d) ==
    \A k \in PatientFields :
        /\ k \in DOMAIN d
        /\ d[k] # None
        /\ PatientFieldOK(k, d[k][1])

\* the Patient object built by Patient(**d): its fields.  bmi and verdict are
\* defined at module level, outside the class body, so the class has no
\* computed field.
Patient(d) == [k \in PatientFields |-> d[k][1]]

\* PatientUpdate(**u) does not raise: every field is Optional
PatientUpdateValid(u) ==
    \A k \in DOMAIN u : u[k] = None \/ PatientUpdateFieldOK(k, u[k][1])

\* the PatientUpdate object built from a request body, dumped with
\* exclude_unset=True: the fields of the class the body sets, an explicit null
\* included; a key of the body that is no field of the class (id) is ignored
PatientUpdate(u) == [k \in DOMAIN u \cap UpdateFields |-> u[k]]

\* model_dump keeping every field, the exclude argument ignored
model_dump_KeepAll(obj, exclude) == obj

\* obj.model_dump(exclude=...)
model_dump(obj, exclude) == [k \in DOMAIN obj \ exclude |-> obj[k]]

----------------------------------------------------------------------------
(* The module-level functions bmi and verdict *)

\* Python's round(x, 2) of num/den, in hundredths: round half to even
RoundHalfEven(num, den) ==
    LET q == num \div den
        r == num % den
    IN  IF 2 * r < den THEN q
        ELSE IF 2 * r > den THEN q + 1
        ELSE IF q % 2 = 0 THEN q ELSE q + 1

\* round(self.weight / (self.height**2), 2), in hundredths
bmi(self) == RoundHalfEven(self.weight * 10000, self.height * self.height)

verdict(self) ==
    IF bmi(self) < 1850 THEN "Underweight"
    ELSE IF bmi(self) < 2500 THEN "Normal"
    ELSE IF bmi(self) < 3000 THEN "Normal"
    ELSE "Obese"

----------------------------------------------------------------------------
(* The record store *)

load_data == store

save_data(data) == store' = data

----------------------------------------------------------------------------
(* Inputs *)

PatientIds == {"P001", "P002"}

\* request bodies of POST /create: valid ones, and one violation of each
\* constraint of Patient
BaseBody(id) ==
    [id |-> id, name |-> "Ann", city |-> "Pune", age |-> 30, gender |-> "male",
     height |-> 100, weight |-> 1850]

ValidBodies ==
    {[BaseBody(id) EXCEPT !.height = h, !.weight = w] :
        id \in PatientIds, h \in {100, 200}, w \in {1850, 3000}}

InvalidBodies ==
    UNION {{[BaseBody(id) EXCEPT !.age = 0],
            [BaseBody(id) EXCEPT !.age = 120],
            [BaseBody(id) EXCEPT !.gender = "unknown"],
            [BaseBody(id) EXCEPT !.height = 0],
            [BaseBody(id) EXCEPT !.weight = 0]} : id \in PatientIds}

CreateBodies == {Wrap(b) : b \in ValidBodies \cup InvalidBodies}

\* request bodies of PUT /edit/{id}: every subset of the fields with a new
\* valid value, then explicit nulls, an age only PatientUpdate accepts, and
\* values PatientUpdate rejects
NewValues ==
    [name |-> "Bob", city |-> "Goa", age |-> 119, gender |-> "female",
     height |-> 200, weight |-> 3000]

ValidUpdates ==
    {[k \in S |-> Some(NewValues[k])] : S \in SUBSET UpdateFields}

OtherUpdates ==
    {[age |-> Some(120)],
     [name |-> Some("Bob"), age |-> Some(120)],
     [name |-> None],
     [weight |-> None, city |-> Some("Goa")],
     [age |-> Some(0)],
     [height |-> Some(0)],
     [gender |-> Some("unknown")],
     [id |-> Some("P002"), name |-> Some("Bob")]}

Updates == ValidUpdates \cup OtherUpdates

SortFields == {"height", "weight", "bmi", "age", "foo"}

SortOrders == {"asc", "desc", "sideways"}

\* the files the service starts from: every record valid, with the six
\* stored fields
InitStores ==
    {<< >>,
     <<[key |-> "P001", val |-> model_dump(BaseBody("P001"), {"id"})]>>}

----------------------------------------------------------------------------
(* Handlers.  Each handler is a function of the data it loaded and of its   *)
(* parameters, giving the response and, when the handler reaches save_data, *)
(* the data it saves.                                                       *)

Reply(status, body) == [status |-> status, body |-> body, save |-> FALSE, data |-> << >>]

ReplySaving(status, body, data) == [status |-> status, body |-> body, save |-> TRUE, data |-> data]

\* x.get(sort_by, 0)
SortKey(x, sort_by) == IF sort_by \in DOMAIN x THEN x[sort_by] ELSE 0

\* InsertSorted placing x, under reverse, before the elements of equal key too
InsertSorted_TiesReversed(seq, x, sort_by, reverse) ==
    LET precedes(e) == IF reverse THEN SortKey(x, sort_by) >= SortKey(e, sort_by)
                                  ELSE SortKey(x, sort_by) < SortKey(e, sort_by)
        later == {i \in 1..Len(seq) : precedes(seq[i])}
        pos == IF later = {} THEN Len(seq) + 1
               ELSE CHOOSE i \in later : \A j \in later : i <= j
    IN  SubSeq(seq, 1, pos - 1) \o <<x>> \o SubSeq(seq, pos, Len(seq))

\* x is placed before the first element it strictly precedes, so after the
\* elements of equal key: the sort is stable, with reverse=True as well
InsertSorted(seq, x, sort_by, reverse) ==
    LET precedes(e) == IF reverse THEN SortKey(x, sort_by) > SortKey(e, sort_by)
                                  ELSE SortKey(x, sort_by) < SortKey(e, sort_by)
        later == {i \in 1..Len(seq) : precedes(seq[i])}
        pos == IF later = {} THEN Len(seq) + 1
               ELSE CHOOSE i \in later : \A j \in later : i <= j
    IN  SubSeq(seq, 1, pos - 1) \o <<x>> \o SubSeq(seq, pos, Len(seq))

RECURSIVE sorted(_, _, _)
\* sorted(values, key=lambda x: x.get(sort_by, 0), reverse=reverse)
sorted(values, sort_by, reverse) ==
    IF values = << >> THEN << >>
    ELSE InsertSorted(sorted(SubSeq(values, 1, Len(values) - 1), sort_by, reverse),
                      values[Len(values)], sort_by, reverse)

valid_feilds == {"height", "weight", "bmi"}

\* view_run leaving the file empty (opened for writing)
view_run_Truncating(data) == ReplySaving(200, data, << >>)

view_run(data) == Reply(200, data)

view_patient_run(data, patient_id) ==
    IF Has(data, patient_id)
    THEN Reply(200, Get(data, patient_id))
    ELSE Reply(404, "Patient not found")

\* sort_patients_check without the check of order
sort_patients_check_FieldOnly(sort_by, order) ==
    IF sort_by \notin valid_feilds THEN 404 ELSE 200

\* the two parameter checks come before load_data
sort_patients_check(sort_by, order) ==
    IF sort_by \notin valid_feilds THEN 404
    ELSE IF order \notin {"asc", "desc"} THEN 404
    ELSE 200

sort_patients_run(data, sort_by, order) ==
    LET sort_order == IF order = "desc" THEN TRUE ELSE FALSE
    IN  Reply(200, sorted(Values(data), sort_by, sort_order))

\* create_patient_run without the check of the key
create_patient_run_Overwrite(data, patient) ==
    ReplySaving(201, "Patient created successfully",
                Put(data, patient.id, model_dump(patient, {"id"})))

create_patient_run(data, patient) ==
    IF Has(data, patient.id)
    THEN Reply(400, "Patient already exists")
    ELSE ReplySaving(201, "Patient created successfully",
                     Put(data, patient.id, model_dump(patient, {"id"})))

\* Merged with the loop taking only the first field, name
Merged_NameOnly(existing, patient_id, updated_patient_info) ==
    [k \in DOMAIN existing \cup {"id"} |->
        IF k = "id" THEN Some(patient_id)
        ELSE IF k = "name" /\ k \in DOMAIN updated_patient_info THEN updated_patient_info[k]
        ELSE Some(existing[k])]

\* the loop over the dumped update, then existing_patient_info["id"] = patient_id
Merged(existing, patient_id, updated_patient_info) ==
    [k \in DOMAIN existing \cup DOMAIN updated_patient_info \cup {"id"} |->
        IF k = "id" THEN Some(patient_id)
        ELSE IF k \in DOMAIN updated_patient_info THEN updated_patient_info[k]
        ELSE Some(existing[k])]

\* update_patient_run saving the merged record before it is validated
update_patient_run_SaveFirst(data, patient_id, patient_update) ==
    IF ~Has(data, patient_id)
    THEN Reply(404, "Patient not found")
    ELSE LET existing_patient_info == Merged(Get(data, patient_id), patient_id, patient_update)
             dumped == [k \in UpdateFields |->
                           IF existing_patient_info[k] = None THEN Get(data, patient_id)[k]
                           ELSE existing_patient_info[k][1]]
         IN  IF ~PatientValid(existing_patient_info)
             THEN ReplySaving(500, "Internal Server Error", Put(data, patient_id, dumped))
             ELSE ReplySaving(200, "Patient details updated successfully",
                      Put(data, patient_id,
                          model_dump(Patient(existing_patient_info), {"id"})))

\* update_patient_run saving a mapping that holds the updated record only
update_patient_run_DropsOthers(data, patient_id, patient_update) ==
    IF ~Has(data, patient_id)
    THEN Reply(404, "Patient not found")
    ELSE LET existing_patient_info == Merged(Get(data, patient_id), patient_id, patient_update)
         IN  IF ~PatientValid(existing_patient_info)
             THEN Reply(500, "Internal Server Error")
             ELSE ReplySaving(200, "Patient details updated successfully",
                      Put(<< >>, patient_id,
                          model_dump(Patient(existing_patient_info), {"id"})))

\* Patient(**existing_patient_info) raising ValidationError ends the handler
\* before save_data: the merge was made in the handler's own copy of the data
update_patient_run(data, patient_id, patient_update) ==
    IF ~Has(data, patient_id)
    THEN Reply(404, "Patient not found")
    ELSE LET existing_patient_info == Merged(Get(data, patient_id), patient_id, patient_update)
         IN  IF ~PatientValid(existing_patient_info)
             THEN Reply(500, "Internal Server Error")
             ELSE ReplySaving(200, "Patient details updated successfully",
                      Put(data, patient_id,
                          model_dump(Patient(existing_patient_info), {"id"})))

\* delete_patient_run saving the data without the del
delete_patient_run_NoDel(data, patient_id) ==
    IF ~Has(data, patient_id)
    THEN Reply(404, "Patient not found")
    ELSE ReplySaving(200, "Patient deleted successfully", data)

delete_patient_run(data, patient_id) ==
    IF ~Has(data, patient_id)
    THEN Reply(404, "Patient not found")
    ELSE ReplySaving(200, "Patient deleted successfully", Del(data, patient_id))

----------------------------------------------------------------------------
(* Requests.  The server takes a request when it serves none; the request  *)
(* is one run of its handler (load, compute, save); returning the response  *)
(* ends it.                                                                 *)

Req(op, patient_id, arg) == [op |-> op, patient_id |-> patient_id, arg |-> arg]

NoRequest == Req("none", "", << >>)

NoResponse == [status |-> 0, body |-> ""]

\* the response sent for the handler's result r
Response(r) == [status |-> r.status, body |-> r.body]

view ==
    /\ request = NoRequest
    /\ request' = Req("view", "", << >>)
    /\ LET r == view_run(load_data)
       IN  /\ response' = Response(r)
           /\ IF r.save THEN save_data(r.data) ELSE UNCHANGED store
           /\ UNCHANGED <<inflight, created>>

view_patient(patient_id) ==
    /\ request = NoRequest
    /\ request' = Req("view_patient", patient_id, << >>)
    /\ LET r == view_patient_run(load_data, patient_id)
       IN  /\ response' = Response(r)
           /\ IF r.save THEN save_data(r.data) ELSE UNCHANGED store
           /\ UNCHANGED <<inflight, created>>

sort_patients(sort_by, order) ==
    /\ request = NoRequest
    /\ request' = Req("sort_patients", "", <<sort_by, order>>)
    /\ LET r == IF sort_patients_check(sort_by, order) # 200
                THEN Reply(sort_patients_check(sort_by, order), "Invalid")
                ELSE sort_patients_run(load_data, sort_by, order)
       IN  /\ response' = Response(r)
           /\ IF r.save THEN save_data(r.data) ELSE UNCHANGED store
           /\ UNCHANGED <<inflight, created>>

\* the body is validated as a Patient before the handler is called (422)
create_patient(body) ==
    /\ request = NoRequest
    /\ request' = Req("create_patient", body.id[1], body)
    /\ LET r == IF ~PatientValid(body)
                THEN Reply(422, "Unprocessable Entity")
                ELSE create_patient_run(load_data, Patient(body))
       IN  /\ response' = Response(r)
           /\ IF r.save THEN save_data(r.data) ELSE UNCHANGED store
           /\ UNCHANGED <<inflight, created>>

\* the body is validated as a PatientUpdate before the handler is called (422)
update_patient(patient_id, body) ==
    /\ request = NoRequest
    /\ request' = Req("update_patient", patient_id, body)
    /\ LET r == IF ~PatientUpdateValid(body)
                THEN Reply(422, "Unprocessable Entity")
                ELSE update_patient_run(load_data, patient_id, PatientUpdate(body))
       IN  /\ response' = Response(r)
           /\ IF r.save THEN save_data(r.data) ELSE UNCHANGED store
           /\ UNCHANGED <<inflight, created>>

delete_patient(patient_id) ==
    /\ request = NoRequest
    /\ request' = Req("delete_patient", patient_id, << >>)
    /\ LET r == delete_patient_run(load_data, patient_id)
       IN  /\ response' = Response(r)
           /\ IF r.save THEN save_data(r.data) ELSE UNCHANGED store
           /\ UNCHANGED <<inflight, created>>

\* the handler returns (or its exception is turned into the response): the
\* request is over, the file stays as the handler left it
Return ==
    /\ request # NoRequest
    /\ request' = NoRequest
    /\ response' = NoResponse
    /\ UNCHANGED <<store, inflight, created>>

\* the workers that serve requests concurrently
Workers == {"w1", "w2"}

\* a worker serving no request
Idle == [pc |-> "idle", req |-> NoRequest, data |-> << >>, status |-> 0]

Init ==
    /\ store \in InitStores
    /\ request = NoRequest
    /\ response = NoResponse
    /\ inflight = [w \in Workers |-> Idle]
    /\ created = {}

Next ==
    \/ view
    \/ \E patient_id \in PatientIds : view_patient(patient_id)
    \/ \E sort_by \in SortFields, order \in SortOrders : sort_patients(sort_by, order)
    \/ \E body \in CreateBodies : create_patient(body)
    \/ \E patient_id \in PatientIds, body \in Updates : update_patient(patient_id, body)
    \/ \E patient_id \in PatientIds : delete_patient(patient_id)
    \/ Return

Spec == Init /\ [][Next]_vars

----------------------------------------------------------------------------
(* Concurrent requests.  Two workers each run a mutating handler; a handler *)
(* is two steps, load_data and then the rest up to its response, and the    *)
(* steps of the two workers interleave freely: no lock is taken.            *)
(*  inflight[w]  the worker's position (idle, loaded, done), its request,   *)
(*               the data it loaded and, once done, its status code         *)
(*  created      history: the IDs for which a create_patient answered 201   *)
(*               with no delete_patient of the ID answering 200 since       *)

\* the requests the workers serve: bodies the framework has validated
ConcRequests ==
    {Req("create_patient", id, Wrap(BaseBody(id))) : id \in PatientIds}
    \cup {Req("update_patient", "P001", [name |-> Some("Bob")]),
          Req("update_patient", "P001", [weight |-> Some(3000)]),
          Req("delete_patient", "P001", << >>)}

\* Handler run on the file as it is when the handler saves, as under a lock
Handler_Reloading(req, data) ==
    CASE req.op = "create_patient" -> create_patient_run(store, Patient(req.arg))
      [] req.op = "update_patient" ->
            update_patient_run(store, req.patient_id, PatientUpdate(req.arg))
      [] req.op = "delete_patient" -> delete_patient_run(store, req.patient_id)

\* the handler of req, run on the data it loaded
Handler(req, data) ==
    CASE req.op = "create_patient" -> create_patient_run(data, Patient(req.arg))
      [] req.op = "update_patient" ->
            update_patient_run(data, req.patient_id, PatientUpdate(req.arg))
      [] req.op = "delete_patient" -> delete_patient_run(data, req.patient_id)

\* what worker w answers and saves, from the data it loaded
Outcome(w) == Handler(inflight[w].req, inflight[w].data)

\* the handler starts: data = load_data()
Load(w, req) ==
    /\ inflight[w].pc = "idle"
    /\ inflight' = [inflight EXCEPT ![w] =
                       [pc |-> "loaded", req |-> req, data |-> load_data, status |-> 0]]
    /\ UNCHANGED <<store, request, response, created>>

\* the handler runs from its check to its response, save_data included
Finish(w) ==
    /\ inflight[w].pc = "loaded"
    /\ LET r == Outcome(w)
           req == inflight[w].req
       IN  /\ inflight' = [inflight EXCEPT ![w].pc = "done", ![w].status = r.status]
           /\ IF r.save THEN save_data(r.data) ELSE UNCHANGED store
           /\ created' =
                IF req.op = "create_patient" /\ r.status = 201
                THEN created \cup {req.patient_id}
                ELSE IF req.op = "delete_patient" /\ r.status = 200
                THEN created \ {req.patient_id}
                ELSE created
    /\ UNCHANGED <<request, response>>

\* the response is returned, the request is over
ReturnConc(w) ==
    /\ inflight[w].pc = "done"
    /\ inflight' = [inflight EXCEPT ![w] = Idle]
    /\ UNCHANGED <<store, request, response, created>>

NextConc ==
    \/ \E w \in Workers, req \in ConcRequests : Load(w, req)
    \/ \E w \in Workers : Finish(w)
    \/ \E w \in Workers : ReturnConc(w)

SpecConc == Init /\ [][NextConc]_vars

----------------------------------------------------------------------------
(* Properties *)

IsReq(req, op) == req.op = op

\* the stored record is valid as a Patient
RecordValid(rec) ==
    /\ rec.height > 0
    /\ rec.weight > 0
    /\ rec.age > 0 /\ rec.age < 120
    /\ rec.gender \in {"male", "female", "other"}

Reverse(seq) == [i \in 1..Len(seq) |-> seq[Len(seq) + 1 - i]]

\* C1: create_patient called with an ID that is a key of the store it loads
\* answers 400 and leaves the store as it was.
C1_DuplicateCreateIsConflict ==
    [][(/\ IsReq(request', "create_patient")
        /\ PatientValid(request'.arg)
        /\ Has(store, request'.patient_id))
       => (response'.status = 400 /\ store' = store)]_vars

C1_Witness ==
    /\ IsReq(request, "create_patient")
    /\ response.status = 400
    /\ Has(store, request.patient_id)
    /\ Len(store) = 2

\* C2: after a successful update_patient the stored record holds the supplied
\* value of every supplied field and the pre-update value of every other
\* field.
C2_UpdateIsMergePatch ==
    [][(IsReq(request', "update_patient") /\ response'.status = 200)
       => (/\ Has(store, request'.patient_id)
           /\ Has(store', request'.patient_id)
           /\ \A k \in UpdateFields :
                Get(store', request'.patient_id)[k] =
                    IF k \in DOMAIN request'.arg
                    THEN request'.arg[k][1]
                    ELSE Get(store, request'.patient_id)[k])]_vars

\* a weight-only update of a record whose other fields are not all the
\* values records are created with
C2_Witness ==
    /\ IsReq(request, "update_patient")
    /\ response.status = 200
    /\ DOMAIN request.arg = {"weight"}
    /\ Get(store, request.patient_id).name = "Bob"
    /\ Get(store, request.patient_id).height = 100

\* C3: when the merged record is not a valid Patient, update_patient reports
\* an error and the store is what it was.
C3_RejectedUpdateWritesNothing ==
    [][(/\ IsReq(request', "update_patient")
        /\ PatientUpdateValid(request'.arg)
        /\ Has(store, request'.patient_id)
        /\ ~PatientValid(Merged(Get(store, request'.patient_id),
                                request'.patient_id, request'.arg)))
       => (response'.status >= 400 /\ store' = store)]_vars

\* a patch of a valid name and an age of 120 was rejected
C3_Witness ==
    /\ IsReq(request, "update_patient")
    /\ response.status = 500
    /\ DOMAIN request.arg = {"name", "age"}
    /\ Get(store, request.patient_id).name = "Ann"

\* C4: delete_patient of an absent ID answers 404 and changes nothing;
\* delete_patient of a present ID removes the key; a key enters the store
\* only by a successful create_patient of it; view_patient of an absent ID
\* answers 404.  Together: after a delete, until a create of the ID succeeds,
\* view_patient of it answers 404.
C4_DeleteThenNotFound ==
    [][/\ (IsReq(request', "delete_patient") /\ ~Has(store, request'.patient_id))
            => (response'.status = 404 /\ store' = store)
       /\ (IsReq(request', "delete_patient") /\ Has(store, request'.patient_id))
            => (response'.status = 200 /\ ~Has(store', request'.patient_id))
       /\ \A id \in Keys(store') \ Keys(store) :
            /\ IsReq(request', "create_patient")
            /\ request'.patient_id = id
            /\ response'.status = 201
       /\ (IsReq(request', "view_patient") /\ ~Has(store, request'.patient_id))
            => response'.status = 404]_vars

C4_Witness ==
    /\ IsReq(request, "delete_patient")
    /\ response.status = 200
    /\ ~Has(store, request.patient_id)
    /\ Len(store) = 1

\* C5: every record of the store is valid: height > 0, weight > 0,
\* 0 < age < 120 and a gender among male, female, other.
C5_StoredRecordsValid ==
    \A i \in 1..Len(store) : RecordValid(store[i].val)

\* a create with an age of 120 was refused while the store holds two records
C5_Witness ==
    /\ IsReq(request, "create_patient")
    /\ response.status = 422
    /\ request.arg.age = Some(120)
    /\ Len(store) = 2

\* C6: after a successful create_patient, view_patient of the same ID returns
\* the created fields together with bmi and verdict as recomputed from the
\* stored height and weight.
C6_CreateThenViewHasDerivedFields ==
    [][(IsReq(request', "create_patient") /\ response'.status = 201)
       => LET r == view_patient_run(store', request'.patient_id)
          IN  /\ r.status = 200
              /\ \A k \in UpdateFields : r.body[k] = request'.arg[k][1]
              /\ "bmi" \in DOMAIN r.body
              /\ "verdict" \in DOMAIN r.body
              /\ r.body.bmi = bmi(r.body)
              /\ r.body.verdict = verdict(r.body)]_vars

\* the threshold table of the specification, on bmi in hundredths
VerdictTable(b) ==
    IF b < 1850 THEN "Underweight" ELSE IF b < 3000 THEN "Normal" ELSE "Obese"

\* the Patient objects constructed while req is served on the loaded data:
\* the validated body of create_patient, the merged record of update_patient
ConstructedPatients(data, req) ==
    IF IsReq(req, "create_patient") /\ PatientValid(req.arg)
    THEN {Patient(req.arg)}
    ELSE IF /\ IsReq(req, "update_patient")
            /\ PatientUpdateValid(req.arg)
            /\ Has(data, req.patient_id)
            /\ PatientValid(Merged(Get(data, req.patient_id), req.patient_id, req.arg))
    THEN {Patient(Merged(Get(data, req.patient_id), req.patient_id, req.arg))}
    ELSE {}

\* C7: verdict follows the threshold table (Underweight below 18.5, Normal
\* from 18.5 and below 30, Obese from 30), and every Patient object the
\* program constructs exposes this bmi and verdict.
C7_PatientExposesBmiAndVerdict ==
    [][\A p \in ConstructedPatients(store, request') :
          /\ verdict(p) = VerdictTable(bmi(p))
          /\ "bmi" \in DOMAIN p
          /\ "verdict" \in DOMAIN p
          /\ p.bmi = bmi(p)
          /\ p.verdict = verdict(p)]_vars

\* the key C8 orders by
C8Key(rec, sort_by) == IF sort_by = "bmi" THEN bmi(rec) ELSE rec[sort_by]

\* seq2 holds the elements of seq1, each as many times
IsPermutation(seq1, seq2) ==
    /\ Len(seq1) = Len(seq2)
    /\ \A x \in {seq1[i] : i \in 1..Len(seq1)} \cup {seq2[i] : i \in 1..Len(seq2)} :
         Cardinality({i \in 1..Len(seq1) : seq1[i] = x}) =
         Cardinality({i \in 1..Len(seq2) : seq2[i] = x})

\* C8: sort_patients with order=asc returns every stored record once, in
\* non-decreasing order of the field, the bmi of a record being
\* round(weight / height^2, 2).
C8_AscendingIsSorted ==
    (/\ IsReq(request, "sort_patients")
     /\ response.status = 200
     /\ request.arg[2] = "asc")
    => /\ IsPermutation(Values(store), response.body)
       /\ \A i, j \in 1..Len(response.body) :
            i < j => C8Key(response.body[i], request.arg[1])
                       <= C8Key(response.body[j], request.arg[1])

\* C9 as stated: the desc result is the exact reverse of the asc result on
\* the same store, ties included.  Stated for the fields a record stores,
\* height and weight, whose key is the stored value.
C9_DescIsReverseOfAsc ==
    (/\ IsReq(request, "sort_patients")
     /\ response.status = 200
     /\ request.arg[1] \in {"height", "weight"}
     /\ request.arg[2] = "desc")
    => response.body = Reverse(sort_patients_run(store, request.arg[1], "asc").body)

\* the number of elements of seq whose sort key is above / below k
KeysAbove(seq, sort_by, k) == Cardinality({i \in 1..Len(seq) : SortKey(seq[i], sort_by) > k})

KeysBelow(seq, sort_by, k) == Cardinality({i \in 1..Len(seq) : SortKey(seq[i], sort_by) < k})

\* C9 amended: the desc result is the exact reverse of the asc result when no
\* two records have the same key x.get(sort_by, 0); in general it is the asc
\* result with its groups of equal key taken in reverse order, the records
\* inside a group keeping the order they have in the asc result.
C9_DescIsReverseUpToTies ==
    (/\ IsReq(request, "sort_patients")
     /\ response.status = 200
     /\ request.arg[2] = "desc")
    => LET sort_by == request.arg[1]
           asc == sort_patients_run(store, sort_by, "asc").body
           desc == response.body
           key(x) == SortKey(x, sort_by)
       IN  /\ Len(desc) = Len(asc)
           /\ (\A i, j \in 1..Len(asc) : i # j => key(asc[i]) # key(asc[j]))
                => desc = Reverse(asc)
           /\ \A a \in 1..Len(asc) :
                desc[KeysAbove(asc, sort_by, key(asc[a]))
                     + (a - KeysBelow(asc, sort_by, key(asc[a])))] = asc[a]

\* a desc sort of two different records of equal key
C9_Witness ==
    /\ IsReq(request, "sort_patients")
    /\ response.status = 200
    /\ request.arg = <<"height", "desc">>
    /\ Len(store) = 2
    /\ store[1].val.height = store[2].val.height
    /\ store[1].val # store[2].val

\* C10: sort_patients with sort_by outside height, weight, bmi, or order
\* outside asc, desc, answers 404 and leaves the store unchanged.
C10_BadQueryIs404 ==
    [][(/\ IsReq(request', "sort_patients")
        /\ (request'.arg[1] \notin {"height", "weight", "bmi"}
            \/ request'.arg[2] \notin {"asc", "desc"}))
       => (response'.status = 404 /\ store' = store)]_vars

C10_Witness ==
    /\ IsReq(request, "sort_patients")
    /\ response.status = 404
    /\ request.arg = <<"height", "sideways">>
    /\ Len(store) = 2

KeySeq(data) == [i \in 1..Len(data) |-> data[i].key]

\* C14: a successful update_patient of path ID p leaves the keys of the store
\* as they were and the record under every key other than p unchanged, an id
\* in the request body included.
C14_UpdateWritesOnlyItsKey ==
    [][(IsReq(request', "update_patient") /\ response'.status = 200)
       => (/\ KeySeq(store') = KeySeq(store)
           /\ \A i \in 1..Len(store) :
                store[i].key # request'.patient_id => store'[i] = store[i])]_vars

\* a body naming another, existing, ID was applied to the path ID
C14_Witness ==
    /\ IsReq(request, "update_patient")
    /\ response.status = 200
    /\ request.patient_id = "P001"
    /\ "id" \in DOMAIN request.arg
    /\ request.arg.id = Some("P002")
    /\ Has(store, "P002")
    /\ Get(store, "P002").name = "Ann"
    /\ Get(store, "P001").name = "Bob"

\* C15: an update of an existing ID that supplies null for some fields, and
\* valid values for the others, succeeds and leaves the null fields at their
\* pre-update values.
C15_NullIsAbsent ==
    [][(/\ IsReq(request', "update_patient")
        /\ Has(store, request'.patient_id)
        /\ \E k \in DOMAIN request'.arg : request'.arg[k] = None
        /\ \A k \in DOMAIN request'.arg :
             request'.arg[k] = None \/ PatientFieldOK(k, request'.arg[k][1]))
       => (/\ response'.status = 200
           /\ \A k \in DOMAIN request'.arg :
                request'.arg[k] = None
                => Get(store', request'.patient_id)[k] = Get(store, request'.patient_id)[k])]_vars

\* C17: view, view_patient and sort_patients leave the store as it was,
\* whatever they answer, and view_patient of an absent ID answers 404.
C17_ReadsDoNotWrite ==
    [][(IsReq(request', "view") \/ IsReq(request', "view_patient")
            \/ IsReq(request', "sort_patients"))
       => (/\ store' = store
           /\ (IsReq(request', "view_patient") /\ ~Has(store, request'.patient_id))
                => (response'.status = 404 /\ response'.body = "Patient not found"))]_vars

C17_Witness ==
    /\ IsReq(request, "view_patient")
    /\ response.status = 404
    /\ request.patient_id = "P002"
    /\ Len(store) = 1

----------------------------------------------------------------------------
(* Properties of concurrent requests, under SpecConc *)

\* what req saves when it runs alone on data
Alone(req, data) ==
    CASE req.op = "create_patient" -> create_patient_run(data, Patient(req.arg)).data
      [] req.op = "update_patient" ->
            update_patient_run(data, req.patient_id, PatientUpdate(req.arg)).data
      [] req.op = "delete_patient" -> delete_patient_run(data, req.patient_id).data

\* worker w has answered its mutating request with success
Succeeded(w) == inflight[w].pc = "done" /\ inflight[w].status \in {200, 201}

\* worker w takes the step from its load to its response
Finishes(w) == inflight[w].pc = "loaded" /\ inflight'[w].pc = "done"

\* C12: when two requests that loaded the same data have both answered with
\* success, the store is what one of them saves from that data alone: the
\* effect of the other is not in it.
C12_LastSaveWins ==
    \A w1, w2 \in Workers :
        (w1 # w2 /\ Succeeded(w1) /\ Succeeded(w2)
            /\ inflight[w1].data = inflight[w2].data)
        => store \in {Alone(inflight[w1].req, inflight[w1].data),
                      Alone(inflight[w2].req, inflight[w2].data)}

\* two creates of different IDs both answered 201, one record is in the store
C12_Witness ==
    /\ Succeeded("w1") /\ Succeeded("w2")
    /\ inflight["w1"].req = Req("create_patient", "P001", Wrap(BaseBody("P001")))
    /\ inflight["w2"].req = Req("create_patient", "P002", Wrap(BaseBody("P002")))
    /\ inflight["w1"].data = << >>
    /\ inflight["w2"].data = << >>
    /\ Keys(store) = {"P002"}

\* C13 as stated: a create_patient answers 201 for an ID only if no earlier
\* create_patient answered 201 for it, or a delete_patient of it answered 200
\* since.
C13_CreateOncePerId ==
    [][\A w \in Workers :
          (Finishes(w) /\ inflight[w].req.op = "create_patient"
              /\ inflight'[w].status = 201)
          => inflight[w].req.patient_id \notin created]_vars

\* C13 amended: a create_patient answers 201 for an ID only if the ID was
\* absent from the data the request loaded.
C13_CreateOnlyIfAbsentAtLoad ==
    [][\A w \in Workers :
          (Finishes(w) /\ inflight[w].req.op = "create_patient"
              /\ inflight'[w].status = 201)
          => ~Has(inflight[w].data, inflight[w].req.patient_id)]_vars

\* both workers answered 201 to a create of the same ID, no delete answered
C13_Witness ==
    /\ Succeeded("w1") /\ Succeeded("w2")
    /\ inflight["w1"].req = Req("create_patient", "P002", Wrap(BaseBody("P002")))
    /\ inflight["w2"].req = inflight["w1"].req
    /\ ~Has(inflight["w1"].data, "P002")
    /\ ~Has(inflight["w2"].data, "P002")
    /\ created = {"P002"}

\* C16 as stated: when update_patient saves, an ID absent from the store just
\* before the save is absent just after it.
C16_UpdateAddsNoKey ==
    [][\A w \in Workers :
          (Finishes(w) /\ inflight[w].req.op = "update_patient")
          => \A id \in PatientIds : ~Has(store, id) => ~Has(store', id)]_vars

\* C16 amended: a successful update_patient saves exactly the keys it loaded,
\* its own ID among them.
C16_UpdateSavesLoadedKeys ==
    [][\A w \in Workers :
          (Finishes(w) /\ inflight[w].req.op = "update_patient"
              /\ inflight'[w].status = 200)
          => (/\ KeySeq(store') = KeySeq(inflight[w].data)
              /\ Has(inflight[w].data, inflight[w].req.patient_id))]_vars

\* an update and a delete of the same ID both answered 200 and the record is
\* in the store
C16_Witness ==
    /\ Succeeded("w1") /\ Succeeded("w2")
    /\ inflight["w1"].req.op = "update_patient"
    /\ inflight["w2"].req = Req("delete_patient", "P001", << >>)
    /\ inflight["w1"].data = inflight["w2"].data
    /\ Len(inflight["w1"].data) = 2
    /\ Has(store, "P001")
    /\ Get(store, "P001").name = "Bob"

====
